---- MODULE Spec2Model ----
(***************************************************************************)
(* A model of the AotJS runtime core: the engine's live set, the mark and   *)
(* sweep collector, the shadow stack with its scope tokens, heap Scopes,    *)
(* Frames, Cells and Functions.                                             *)
(*                                                                          *)
(* A Val is an integer: a positive number is a pointer (the id of a heap    *)
(* object, tag 0 of the shifted NaN box), a negative number is an unboxed   *)
(* int32 (tag -1).  0 is the null pointer of the C++ pointer fields.        *)
(* Freed objects keep their record in heap (the memory is not reused), so   *)
(* a dangling pointer reads the stale contents unless the process crashes.  *)
(***************************************************************************)
EXTENDS Integers, Sequences, FiniteSets, TLC

\* ---- bounds of the model
MaxObjects == 9
MaxStack == 2
MaxTokens == 2
MaxArity == 1
MaxCalls == 3

\* ---- the objects the Engine constructor creates
UndefinedRef == 1
NullRef == 2
DeletedRef == 3
FalseRef == 4
TrueRef == 5
RootRef == 6

Sigils == {UndefinedRef, NullRef, DeletedRef, FalseRef, TrueRef}

\* An unboxed int32 Val (tagBitsInt32 = -1 makes the raw word negative).
Int32Vals == {-1}

VARIABLES
  heap,       \* id -> the object's fields (kept after the object is freed)
  mObjects,   \* Engine::mObjects, the live set
  mRoot,      \* Engine::mRoot
  mScope,     \* Engine::mScope, the current heap Scope or 0
  mFrame,     \* Engine::mFrame, the current Frame or 0
  mStack,     \* the shadow stack from mStackBegin to mStackTop
  tokens,     \* the open Scope / ArgList / call tokens, innermost last
  FORCE_GC,   \* the build flag of the Makefile
  halt,       \* "none", "abort" (std::abort), "ub" (a crash on undefined
              \* behaviour) or "ctor" (the Engine constructor has not returned)
  lastOp      \* the operation that produced this state

vars == <<heap, mObjects, mRoot, mScope, mFrame, mStack, tokens, FORCE_GC, halt, lastOp>>

\* The operation that produced a state: its name, a number n, an object c and
\* a tuple h of further values (a handle, a result).
Op3(name, n, c, h) == [op |-> name, n |-> n, c |-> c, h |-> h]

Op2(name, n, c) == Op3(name, n, c, <<>>)

Op(name) == Op2(name, 0, 0)

\* ---- heap objects

NewThing(kind) ==
  [kind |-> kind, mMarked |-> FALSE, mPrototype |-> 0, mProps |-> {},
   mVal |-> 0, mCaptures |-> <<>>, mScope |-> 0, mParent |-> 0,
   mSlots |-> <<>>, mFunc |-> 0, mThis |-> 0, mArity |-> 0,
   data |-> <<>>, written |-> FALSE]

Range(s) == {s[i] : i \in DOMAIN s}

IsGCThing(v) == v > 0

IsInternal(v) == IsGCThing(v) /\ heap[v].kind = "Cell"

IsJSThing(v) == IsGCThing(v) /\ ~IsInternal(v)

IsString(v) == IsGCThing(v) /\ heap[v].kind = "String"

IsSymbol(v) == IsGCThing(v) /\ heap[v].kind = "Symbol"

IsFunction(v) == IsGCThing(v) /\ heap[v].kind = "Function"

PropKeys(o) == {p[1] : p \in heap[o].mProps}

PropVals(o) == {p[2] : p \in heap[o].mProps}

\* ---- the Val word (VAL_SHIFTED_NAN_BOX)

\* The 64-bit mRaw is four 16-bit limbs, the most significant first; a double
\* is the four limbs of its IEEE 754 bits.
Limb == 65536

tagBitsPointer == 0

tagBitsInt32 == -1

\* tagShift, 0x0010'0000'0000'0000, in the most significant limb
tagShift == 16

\* A tag() that shifts the sign bit out instead of extending it.
tagLogicalShift(raw) == raw[1]

\* tag(): mRaw >> tagBitShift, an arithmetic shift of the int64_t
tag(raw) == IF raw[1] >= Limb \div 2 THEN raw[1] - Limb ELSE raw[1]

\* The address of heap object o, as a 64-bit word.
Address(o) == <<0, 0, 0, o>>

\* tagPointer: the pointer as it is
tagPointer(o) == Address(o)

\* tagOrBoxInt32: the uint32_t of the int, or-ed with tagBitsInt32 << 48
tagOrBoxInt32(aInt) ==
  <<tagBitsInt32 % Limb, 0, (aInt \div Limb) % Limb, aInt % Limb>>

NegInfinity == <<65520, 0, 0, 0>>

\* tagOrBoxDouble: the bits plus tagShift (the sum wraps at 64 bits), except
\* for -Infinity, which becomes a pointer to the Box<double> box
tagOrBoxDouble(aDouble, box) ==
  IF aDouble = NegInfinity THEN tagPointer(box)
  ELSE <<(aDouble[1] + tagShift) % Limb, aDouble[2], aDouble[3], aDouble[4]>>

isGCThing(raw) == tag(raw) = tagBitsPointer

isDouble(raw) == tag(raw) # tagBitsPointer /\ tag(raw) # tagBitsInt32

isInt32(raw) == tag(raw) = tagBitsInt32

\* asPointer(): the word reinterpreted as a GCThing*; here the object there
asPointer(raw) == raw[4]

\* isTypeOf: the class of the object the word points to
isTypeOf(raw, aExpected) == isGCThing(raw) /\ heap[asPointer(raw)].kind = aExpected

isBool(raw) == raw = Address(TrueRef) \/ raw = Address(FalseRef)

isUndefined(raw) == raw = Address(UndefinedRef)

isNull(raw) == raw = Address(NullRef)

isObject(raw) == isTypeOf(raw, "Object")

isString(raw) == isTypeOf(raw, "String")

isSymbol(raw) == isTypeOf(raw, "Symbol")

isFunction(raw) == isTypeOf(raw, "Function")

\* An asDouble() that forgets the shift.
asDoubleUnshifted(raw) == raw

\* asDouble(): mRaw - tagShift, reinterpreted as a double
asDouble(raw) == <<(raw[1] - tagShift) % Limb, raw[2], raw[3], raw[4]>>

\* asInt32(): the low 32 bits as an int32_t
asInt32(raw) ==
  (IF raw[3] >= Limb \div 2 THEN raw[3] - Limb ELSE raw[3]) * Limb + raw[4]

\* Box<double>::toDouble(): the payload of the box
BoxToDouble(o) == heap[o].data

\* A Val equality that compares the raw words only.
ValEqualsRaw(lhs, rhs) == lhs = rhs

\* Val::operator==: bit-identical words, or two Strings whose data are equal
ValEquals(lhs, rhs) ==
  \/ lhs = rhs
  \/ (isString(lhs) /\ isString(rhs)
        /\ heap[asPointer(lhs)].data = heap[asPointer(rhs)].data)

\* std::hash<Val>: hash<uint64_t> of the raw word, which libstdc++ and libc++
\* return as it is on a 64-bit target; the text of a String is not read.
Hash(raw) == raw

\* Where a search of o's mProps for key k can stop: 0 stands for end().  The
\* unordered_map looks in the bucket of Hash(k) for a key equal to k.  A key
\* with k's hash is found; a key that is equal to k with another hash is
\* found when it happens to share the bucket and the library does not compare
\* the hashes before the keys, and is missed otherwise.
MapFind(o, k) ==
  LET equal == {q \in PropKeys(o) : ValEquals(Address(q), Address(k))}
  IN IF \E q \in equal : Hash(Address(q)) = Hash(Address(k)) THEN equal
     ELSE equal \cup {0}

\* ---- mark phase

\* The objects on which o's markRefsForGC calls markForGC.
ObjectMarkRefs(o) == PropKeys(o) \cup {v \in PropVals(o) : IsJSThing(v)}

CellMarkRefs(o) == {v \in {heap[o].mVal} : IsGCThing(v)}

\* The objects on which o's markRefsForGC calls markRefsForGC directly,
\* without marking them.
FunctionMarkRefs(o) == {heap[o].mScope} \ {0}

ScopeMarkRefs(o) ==
  ({heap[o].mParent} \ {0}) \cup {v \in Range(heap[o].mSlots) : IsJSThing(v)}

FrameMarkRefs(o) ==
  ({heap[o].mParent} \ {0}) \cup {heap[o].mFunc}
    \cup {v \in {heap[o].mThis} \cup Range(heap[o].mSlots) : IsJSThing(v)}

MarkCalls(o) ==
  CASE heap[o].kind = "Object" -> ObjectMarkRefs(o)
    [] heap[o].kind = "Cell" -> CellMarkRefs(o)
    [] OTHER -> {}

RefsCalls(o) ==
  CASE heap[o].kind = "Function" -> FunctionMarkRefs(o)
    [] heap[o].kind = "Scope" -> ScopeMarkRefs(o)
    [] heap[o].kind = "Frame" -> FrameMarkRefs(o)
    [] OTHER -> {}

\* Every pointer o's markRefsForGC dereferences (isJSThing reads the type).
Derefs(o) ==
  MarkCalls(o) \cup RefsCalls(o)
    \cup {v \in PropVals(o) \cup Range(heap[o].mSlots) \cup {heap[o].mThis} : IsGCThing(v)}

\* markForGC: an object whose mark is already set is left alone.
MarkForGC(targets, M) == {t \in targets : ~heap[t].mMarked /\ t \notin M}

\* M: the objects marked by this collection; R: the objects whose
\* markRefsForGC has run.
RECURSIVE MarkClosure(_, _)
MarkClosure(M, R) ==
  LET newM == MarkForGC(UNION {MarkCalls(o) : o \in R}, M)
      M2 == M \cup newM
      R2 == R \cup newM \cup UNION {RefsCalls(o) : o \in R}
  IN IF M2 = M /\ R2 = R THEN <<M, R>> ELSE MarkClosure(M2, R2)

RECURSIVE RefsReach(_)
RefsReach(S) ==
  LET S2 == S \cup UNION {RefsCalls(o) : o \in S}
  IN IF S2 = S THEN S ELSE RefsReach(S2)

\* The roots Engine::gc marks.
GcRoots == {mRoot} \cup ({mScope, mFrame} \ {0})

GcMark == MarkClosure(MarkForGC(GcRoots, {}), MarkForGC(GcRoots, {}))

GcMarked == GcMark[1]

GcRefs == GcMark[2]

\* The unguarded recursion of markRefsForGC re-enters an object: it never ends.
GcDiverges == \E o \in GcRefs : o \in RefsReach(RefsCalls(o))

\* The mark phase dereferences a freed object.
GcDangling == ~((GcRoots \cup GcRefs \cup UNION {Derefs(o) : o \in GcRefs}) \subseteq mObjects)

\* ---- sweep phase

IsMarkedAfterMark(o) == heap[o].mMarked \/ o \in GcMarked

DeadObjects == {o \in mObjects : ~IsMarkedAfterMark(o)}

\* A sweep that clears the mark of every survivor it walks, with a root that
\* is not in the set it walks.
SweptMarkExceptRoot(o, marked) == IF o = mRoot THEN marked ELSE FALSE

\* The mark bit the sweep leaves on object o (marked says whether the mark
\* phase left it marked): the loop over deadObjects never reaches clearForGC.
SweptMark(o, marked) == marked

GcObjects == mObjects \ DeadObjects

GcHeap ==
  [o \in DOMAIN heap |->
     [heap[o] EXCEPT !.mMarked =
        IF o \in GcObjects THEN SweptMark(o, IsMarkedAfterMark(o))
        ELSE IsMarkedAfterMark(o)]]

\* ---- allocation: the GCThing constructor collects, then registers

ObjectsAtAlloc(doGC) == IF doGC THEN GcObjects ELSE mObjects

HeapAtAlloc(doGC) == IF doGC THEN GcHeap ELSE heap

\* n bounds the heap: at most n objects are ever allocated.
MayAlloc(doGC, n) ==
  /\ halt = "none"
  /\ Len(heap) < n
  /\ FORCE_GC => doGC
  /\ doGC => ~GcDiverges

\* A constructor that registers the new object before it collects: the sweep
\* finds it unmarked.
AllocateRegisterFirst(thing, doGC) ==
  /\ heap' = Append(HeapAtAlloc(doGC), thing)
  /\ mObjects' = IF doGC THEN GcObjects ELSE mObjects \cup {Len(heap) + 1}

Allocate(thing, doGC) ==
  /\ heap' = Append(HeapAtAlloc(doGC), thing)
  /\ mObjects' = ObjectsAtAlloc(doGC) \cup {Len(heap) + 1}

\* ---- shadow stack

PushLocal(v) == mStack' = Append(mStack, v)

PopLocal(rec) == mStack' = SubSeq(mStack, 1, rec)

\* ---- initial state: the engine after construction

Init ==
  /\ heap = [o \in 1..RootRef |->
               IF o = RootRef THEN NewThing("Object") ELSE NewThing("Box")]
  /\ mObjects = 1..RootRef
  /\ mRoot = RootRef
  /\ mScope = 0
  /\ mFrame = 0
  /\ mStack = <<>>
  /\ tokens = <<>>
  /\ FORCE_GC \in BOOLEAN
  /\ halt = "none"
  /\ lastOp = Op("init")

\* ---- the Engine constructor

\* Engine::mReadyForGC: false until the constructor has made the singletons
\* and the root object.
mReadyForGC == halt # "ctor"

\* The engine as its constructor finds it: nothing allocated, no root set.
InitCtor ==
  /\ heap = <<>>
  /\ mObjects = {}
  /\ mRoot = 0
  /\ mScope = 0
  /\ mFrame = 0
  /\ mStack = <<>>
  /\ tokens = <<>>
  /\ FORCE_GC \in BOOLEAN
  /\ halt = "ctor"
  /\ lastOp = Op("ctor")

\* The constructor's next allocation: the five singletons, then the root
\* object, after which mRoot and mReadyForGC are set.  The GCThing
\* constructor runs first: maybeGC() collects nothing while mReadyForGC is
\* false, but with FORCE_GC it is engine().gc(), which does not look at the
\* flag; when its mark of the unset mRoot does not crash, its sweep deletes
\* every object made so far, none being marked.  lastOp.n says whether gc()
\* ran.
EngineCtorAlloc ==
  /\ ~mReadyForGC
  /\ Len(heap) < RootRef
  /\ heap' = Append(heap, IF Len(heap) + 1 = RootRef THEN NewThing("Object")
                          ELSE NewThing("Box"))
  /\ mObjects' = (IF FORCE_GC THEN {o \in mObjects : heap[o].mMarked} ELSE mObjects)
                   \cup {Len(heap) + 1}
  /\ mRoot' = IF Len(heap) + 1 = RootRef THEN RootRef ELSE mRoot
  /\ halt' = IF Len(heap) + 1 = RootRef THEN "none" ELSE "ctor"
  /\ lastOp' = Op2("ctor", IF FORCE_GC THEN 1 ELSE 0, 0)
  /\ UNCHANGED <<mScope, mFrame, mStack, tokens, FORCE_GC>>

\* The gc() of a FORCE_GC build inside the constructor: mRoot->markForGC()
\* through the unset mRoot brings the process down.
EngineCtorGcCrash ==
  /\ ~mReadyForGC
  /\ Len(heap) < RootRef
  /\ FORCE_GC
  /\ heap' = <<>>
  /\ mObjects' = {}
  /\ halt' = "ub"
  /\ lastOp' = Op2("ctor", 1, 0)
  /\ UNCHANGED <<mRoot, mScope, mFrame, mStack, tokens, FORCE_GC>>

\* The process is gone (std::abort, or a crash on undefined behaviour); op
\* is the operation that ended it.
Halted(how, op) ==
  /\ halt' = how
  /\ heap' = <<>>
  /\ mObjects' = {}
  /\ mRoot' = 0
  /\ mScope' = 0
  /\ mFrame' = 0
  /\ mStack' = <<>>
  /\ tokens' = <<>>
  /\ lastOp' = op
  /\ UNCHANGED FORCE_GC

Halt(how) == Halted(how, Op(how))

Running == halt = "none"

\* ---- operations of the heap

\* The Vals generated code can name: its Locals, the root and, inside a
\* body, the callee it was handed.
Operands ==
  Range(mStack) \cup {mRoot} \cup (IF mFrame = 0 THEN {} ELSE {heap[mFrame].mFunc})

Pointers == {v \in Operands : IsGCThing(v)}

\* Retained<Object> x = new Object(prototype)
NewObject(n) ==
  \E doGC \in BOOLEAN, proto \in {0} \cup Pointers :
    /\ MayAlloc(doGC, n)
    /\ Len(mStack) < n - RootRef
    /\ proto # 0 => heap[proto].kind \in {"Object", "Function"}
    /\ Allocate([NewThing("Object") EXCEPT !.mPrototype = proto], doGC)
    /\ PushLocal(Len(heap) + 1)
    /\ lastOp' = Op("mutator")
    /\ UNCHANGED <<mRoot, mScope, mFrame, tokens, FORCE_GC, halt>>

\* Retained<String> s = new String("..."), with a text no other String has
NewString(n) ==
  \E doGC \in BOOLEAN :
    /\ MayAlloc(doGC, n)
    /\ Len(mStack) < n - RootRef
    /\ Allocate([NewThing("String") EXCEPT !.data = <<Len(heap) + 1>>], doGC)
    /\ PushLocal(Len(heap) + 1)
    /\ lastOp' = Op("mutator")
    /\ UNCHANGED <<mRoot, mScope, mFrame, tokens, FORCE_GC, halt>>

\* Retained<Cell> c = new Cell(v)
NewCell(n) ==
  \E doGC \in BOOLEAN, v \in Operands \cup Int32Vals :
    /\ MayAlloc(doGC, n)
    /\ Len(mStack) < n - RootRef
    /\ Allocate([NewThing("Cell") EXCEPT !.mVal = v], doGC)
    /\ PushLocal(Len(heap) + 1)
    /\ lastOp' = Op("mutator")
    /\ UNCHANGED <<mRoot, mScope, mFrame, tokens, FORCE_GC, halt>>

\* The capture lists generated code can build from the Cells it holds.
CaptureLists == {<<>>} \cup {<<c>> : c \in {p \in Pointers : heap[p].kind = "Cell"}}

\* Retained<Function> f = new Function(name, arity, captures, body); the
\* function remembers the engine's current heap Scope.
NewFunction(n) ==
  \E doGC \in BOOLEAN, arity \in 0..MaxArity, caps \in CaptureLists :
    /\ MayAlloc(doGC, n)
    /\ Len(mStack) < n - RootRef
    /\ Allocate([NewThing("Function") EXCEPT
                   !.mCaptures = caps, !.mScope = mScope, !.mArity = arity], doGC)
    /\ PushLocal(Len(heap) + 1)
    /\ lastOp' = Op("mutator")
    /\ UNCHANGED <<mRoot, mScope, mFrame, tokens, FORCE_GC, halt>>

\* A normalizePropName that takes every key as it is.
NormalizePropNameAny(k) == TRUE

\* normalizePropName returns (a String or a Symbol, as it is) and does not abort
NormalizePropNameOk(k) == IsString(k) \/ IsSymbol(k)

\* unordered_map::emplace keeps the entry of a key already present.
Emplace(props, k, v) ==
  IF \E p \in props : p[1] = k THEN props ELSE props \cup {<<k, v>>}

\* A setProp that stores on the receiver's prototype when it has one.
SetPropOnPrototype(o, k, v, traced) ==
  /\ Running
  /\ heap[o].kind \in {"Object", "Function"}
  /\ NormalizePropNameOk(k)
  /\ heap' = [heap EXCEPT
                ![IF heap[o].mPrototype = 0 THEN o ELSE heap[o].mPrototype].mProps =
                   Emplace(@, k, v)]
  /\ lastOp' = IF traced THEN Op3("setProp", o, k, <<v>>) ELSE Op("mutator")
  /\ UNCHANGED <<mObjects, mRoot, mScope, mFrame, mStack, tokens, FORCE_GC, halt>>

\* o->setProp(k, v) with a key normalizePropName accepts; traced says whether
\* the history keeps the operands.
SetPropOn(o, k, v, traced) ==
  /\ Running
  /\ heap[o].kind \in {"Object", "Function"}
  /\ NormalizePropNameOk(k)
  /\ heap' = [heap EXCEPT ![o].mProps = Emplace(@, k, v)]
  /\ lastOp' = IF traced THEN Op3("setProp", o, k, <<v>>) ELSE Op("mutator")
  /\ UNCHANGED <<mObjects, mRoot, mScope, mFrame, mStack, tokens, FORCE_GC, halt>>

\* setProp on the values generated code holds
SetProp(traced) ==
  \E o \in Pointers, k \in Pointers, v \in Operands \cup Int32Vals :
    SetPropOn(o, k, v, traced)

\* o->getProp(k): the own entry if there is one, else the prototype's answer,
\* else undefined.  The own entry is answered with index->first, its key.
RECURSIVE GetProp(_, _)
GetProp(o, k) ==
  IF k \in PropKeys(o) THEN k
  ELSE IF heap[o].mPrototype # 0 THEN GetProp(heap[o].mPrototype, k)
  ELSE UndefinedRef

\* Val r = o->getProp(k)
GetPropRead ==
  \E o \in Pointers, k \in Pointers :
    /\ Running
    /\ heap[o].kind \in {"Object", "Function"}
    /\ NormalizePropNameOk(k)
    /\ lastOp' = Op3("getProp", o, k, <<GetProp(o, k)>>)
    /\ UNCHANGED <<heap, mObjects, mRoot, mScope, mFrame, mStack, tokens, FORCE_GC, halt>>

\* getProp with a key that is neither a String nor a Symbol: std::abort
GetPropAbort ==
  /\ Running
  /\ \E o \in Pointers, k \in Operands \cup Int32Vals :
       heap[o].kind \in {"Object", "Function"} /\ ~NormalizePropNameOk(k)
  /\ Halt("abort")

\* setProp with a key that is neither a String nor a Symbol: std::abort
SetPropAbort ==
  /\ Running
  /\ \E o \in Pointers, k \in Operands \cup Int32Vals :
       heap[o].kind \in {"Object", "Function"} /\ ~NormalizePropNameOk(k)
  /\ Halt("abort")

\* o->setProp(k, v) among Strings of equal text: mProps.emplace adds no entry
\* when its search stops at one
SetPropEmplace ==
  \E o \in Pointers, k \in Pointers, v \in Operands \cup Int32Vals :
    \E q \in MapFind(o, k) :
      /\ Running
      /\ heap[o].kind \in {"Object", "Function"}
      /\ NormalizePropNameOk(k)
      /\ heap' = [heap EXCEPT ![o].mProps = IF q = 0 THEN @ \cup {<<k, v>>} ELSE @]
      /\ lastOp' = Op("mutator")
      /\ UNCHANGED <<mObjects, mRoot, mScope, mFrame, mStack, tokens, FORCE_GC, halt>>

\* o->getProp(k) among Strings of equal text: mProps.find(name) on o itself;
\* lastOp.h holds the key of the entry it stopped at, 0 at end()
GetPropFind ==
  \E o \in Pointers, k \in Pointers :
    \E q \in MapFind(o, k) :
      /\ Running
      /\ heap[o].kind \in {"Object", "Function"}
      /\ NormalizePropNameOk(k)
      /\ lastOp' = Op3("find", o, k, <<q>>)
      /\ UNCHANGED <<heap, mObjects, mRoot, mScope, mFrame, mStack, tokens, FORCE_GC, halt>>

\* engine().gc()
Gc ==
  /\ Running
  /\ ~GcDiverges
  /\ heap' = GcHeap
  /\ mObjects' = GcObjects
  /\ lastOp' = Op2("gc", IF lastOp.op = "gc" THEN 2 ELSE 1, 0)
  /\ UNCHANGED <<mRoot, mScope, mFrame, mStack, tokens, FORCE_GC, halt>>

\* A collection (explicit or at an allocation) that dereferences a freed
\* object, or whose unguarded recursion never ends, brings the process down.
GcCrash ==
  /\ Running
  /\ GcDangling \/ GcDiverges
  /\ Halt("ub")

\* Generated code uses a Local whose object has been freed.
UseAfterFree ==
  /\ Running
  /\ \E v \in Pointers : v \notin mObjects
  /\ Halt("ub")

\* ---- heap Scopes (the older design of captured variables)

\* engine.pushScope(1)
PushScope(n) ==
  \E doGC \in BOOLEAN :
    /\ MayAlloc(doGC, n)
    /\ Allocate([NewThing("Scope") EXCEPT
                   !.mParent = mScope, !.mSlots = <<UndefinedRef>>], doGC)
    /\ mScope' = Len(heap) + 1
    /\ lastOp' = Op("mutator")
    /\ UNCHANGED <<mRoot, mFrame, mStack, tokens, FORCE_GC, halt>>

\* engine.popScope() with a current Scope
PopScope ==
  /\ Running
  /\ mScope # 0
  /\ mScope' = heap[mScope].mParent
  /\ lastOp' = Op("mutator")
  /\ UNCHANGED <<heap, mObjects, mRoot, mFrame, mStack, tokens, FORCE_GC, halt>>

\* engine.popScope() without one: std::abort
PopScopeAbort ==
  /\ Running
  /\ mScope = 0
  /\ Halt("abort")

\* scope->local(0) = v
ScopeSetLocal ==
  \E v \in Operands \cup Int32Vals :
    /\ Running
    /\ mScope # 0
    /\ heap' = [heap EXCEPT ![mScope].mSlots = <<v>>]
    /\ lastOp' = Op("mutator")
    /\ UNCHANGED <<mObjects, mRoot, mScope, mFrame, mStack, tokens, FORCE_GC, halt>>

\* ---- calls

\* An open token: its kind, the top it pops back to, the top before its
\* construction and, for a ReturnScope, the handle <<slot, value>> its last
\* escape returned.  An ArgList also has mBegin and mSize, with the actual
\* arguments and the callee's arity; a call has the Frame before it (frame)
\* and the Frame created for it (mine).
Token(t, rec, entry) ==
  [t |-> t, mFirstRecord |-> rec, entry |-> entry, ret |-> <<>>,
   mBegin |-> 0, mSize |-> 0, args |-> <<>>, arity |-> 0, frame |-> 0, mine |-> 0]

Top == Len(mStack)

Innermost == tokens[Len(tokens)]

\* The arguments a Frame holds: the actual ones, then undefined up to the arity.
PadArgs(arity, args) ==
  args \o [i \in 1..(arity - Len(args)) |-> UndefinedRef]

FrameArgs(f, args) == PadArgs(heap[f].mArity, args)

\* engine.call(f, Null(), args): pushFrame, then the body starts
Call(n) ==
  \E doGC \in BOOLEAN, f \in Pointers, args \in {<<>>} \cup {<<v>> : v \in Operands} :
    /\ MayAlloc(doGC, n)
    /\ Len(tokens) < MaxCalls
    /\ IsFunction(f)
    /\ Allocate([NewThing("Frame") EXCEPT
                   !.mParent = mFrame, !.mFunc = f, !.mThis = NullRef,
                   !.mSlots = FrameArgs(f, args)], doGC)
    /\ mFrame' = Len(heap) + 1
    /\ tokens' = Append(tokens, [Token("call", Top, Top) EXCEPT
                                   !.frame = mFrame, !.mine = Len(heap) + 1])
    /\ lastOp' = Op("call")
    /\ UNCHANGED <<mRoot, mScope, mStack, FORCE_GC, halt>>

\* engine.call(v, ...) with a v that is no Function: std::abort
CallAbort ==
  /\ Running
  /\ \E f \in Operands \cup Int32Vals : ~IsFunction(f)
  /\ Halt("abort")

\* What mFrame->parent() can return: the parent, and any frame pointer at
\* all once the Frame has been freed.
FrameParent(f) ==
  IF f = 0 THEN {}
  ELSE IF f \in mObjects THEN {heap[f].mParent}
  ELSE {0, heap[f].mParent} \cup {p \in DOMAIN heap : heap[p].kind = "Frame"}

\* A popFrame that deletes the Frame it pops.
ReturnFreeingFrame ==
  \E parent \in FrameParent(mFrame) :
    /\ Running
    /\ tokens # <<>>
    /\ Innermost.t = "call"
    /\ mFrame # 0
    /\ mFrame' = parent
    /\ mObjects' = mObjects \ {mFrame}
    /\ tokens' = SubSeq(tokens, 1, Len(tokens) - 1)
    /\ lastOp' = Op2("return", mFrame, Innermost.frame)
    /\ UNCHANGED <<heap, mRoot, mScope, mStack, FORCE_GC, halt>>

\* the body returns: popFrame
Return ==
  \E parent \in FrameParent(mFrame) :
    /\ Running
    /\ tokens # <<>>
    /\ Innermost.t = "call"
    /\ mFrame # 0
    /\ mFrame' = parent
    /\ tokens' = SubSeq(tokens, 1, Len(tokens) - 1)
    /\ lastOp' = Op2("return", mFrame, Innermost.frame)
    /\ UNCHANGED <<heap, mObjects, mRoot, mScope, mStack, FORCE_GC, halt>>

\* popFrame reads the parent of a Frame that has been freed: the process may
\* crash.
ReturnCrash ==
  /\ Running
  /\ tokens # <<>>
  /\ Innermost.t = "call"
  /\ mFrame # 0
  /\ mFrame \notin mObjects
  /\ Halt("ub")

\* popFrame without a current frame, at the end of a call: std::abort
PopFrameAbort ==
  /\ Running
  /\ tokens # <<>>
  /\ Innermost.t = "call"
  /\ mFrame = 0
  /\ Halted("abort", Op("popFrame"))

\* ---- captured variables

Captures == {<<f, i>> : f \in {p \in Pointers : IsFunction(p)}, i \in 1..1}

HasCapture(fi) == fi[2] <= Len(heap[fi[1]].mCaptures)

Capture(fi) == heap[fi[1]].mCaptures[fi[2]]

\* f.capture(i).val() = v
CaptureWrite ==
  \E fi \in Captures, v \in Operands \cup Int32Vals :
    /\ Running
    /\ HasCapture(fi)
    /\ heap' = [heap EXCEPT ![Capture(fi)].mVal = v, ![Capture(fi)].written = TRUE]
    /\ lastOp' = Op2("captureWrite", v, Capture(fi))
    /\ UNCHANGED <<mObjects, mRoot, mScope, mFrame, mStack, tokens, FORCE_GC, halt>>

\* What reading the binding of Cell c can return: the binding, and anything
\* at all once the Cell has been freed.
CellRead(c) ==
  IF c \in mObjects THEN {heap[c].mVal} ELSE Operands \cup Int32Vals \cup {heap[c].mVal}

\* Val v = g.capture(j).val()
CaptureRead ==
  \E fi \in Captures :
    /\ Running
    /\ HasCapture(fi)
    /\ \E v \in CellRead(Capture(fi)) : lastOp' = Op2("captureRead", v, Capture(fi))
    /\ UNCHANGED <<heap, mObjects, mRoot, mScope, mFrame, mStack, tokens, FORCE_GC, halt>>

\* A capture of a freed Cell is used: the process may crash.
CaptureCrash ==
  /\ Running
  /\ \E fi \in Captures : HasCapture(fi) /\ Capture(fi) \notin mObjects
  /\ Halt("ub")

\* ---- scope tokens of the shadow stack

\* The Vals the stack operations are tried with.
LocalVals == {mRoot} \cup Int32Vals

\* Local x = v
NewLocal ==
  \E v \in LocalVals :
    /\ Running
    /\ Top < MaxStack
    /\ PushLocal(v)
    /\ lastOp' = Op("pushLocal")
    /\ UNCHANGED <<heap, mObjects, mRoot, mScope, mFrame, tokens, FORCE_GC, halt>>

\* x = y, of two Locals: *mRecord = *aLocal
LocalAssign ==
  \E i \in 1..Top, j \in 1..Top :
    /\ Running
    /\ mStack' = [mStack EXCEPT ![i] = mStack[j]]
    /\ lastOp' = Op("assign")
    /\ UNCHANGED <<heap, mObjects, mRoot, mScope, mFrame, tokens, FORCE_GC, halt>>

\* Scope scope;
ScopeCtor ==
  /\ Running
  /\ Len(tokens) < MaxTokens
  /\ tokens' = Append(tokens, Token("Scope", Top, Top))
  /\ lastOp' = Op("Scope")
  /\ UNCHANGED <<heap, mObjects, mRoot, mScope, mFrame, mStack, FORCE_GC, halt>>

\* A ~Scope() that pops to one slot above the recorded top.
ScopeDtorOffByOne ==
  /\ Running
  /\ tokens # <<>>
  /\ Innermost.t = "Scope"
  /\ PopLocal(IF Innermost.mFirstRecord < Top THEN Innermost.mFirstRecord + 1 ELSE Top)
  /\ tokens' = SubSeq(tokens, 1, Len(tokens) - 1)
  /\ lastOp' = Op2("~Scope", Top - Innermost.mFirstRecord, Innermost.entry)
  /\ UNCHANGED <<heap, mObjects, mRoot, mScope, mFrame, FORCE_GC, halt>>

\* ~Scope(): engine().popLocal(mFirstRecord)
ScopeDtor ==
  /\ Running
  /\ tokens # <<>>
  /\ Innermost.t = "Scope"
  /\ PopLocal(Innermost.mFirstRecord)
  /\ tokens' = SubSeq(tokens, 1, Len(tokens) - 1)
  /\ lastOp' = Op2("~Scope", Top - Innermost.mFirstRecord, Innermost.entry)
  /\ UNCHANGED <<heap, mObjects, mRoot, mScope, mFrame, FORCE_GC, halt>>

\* The tokens left when the innermost one is destroyed; h is the handle the
\* body returns with, which the ArgList of the call it returns from remembers.
PassRet(h) ==
  LET rest == SubSeq(tokens, 1, Len(tokens) - 1)
  IN IF rest # <<>> /\ rest[Len(rest)].t = "ArgList"
       THEN [rest EXCEPT ![Len(rest)].ret = h]
       ELSE rest

\* The slot mRetVal reserved: the one just below the top mScope recorded.
RetSlot(tk) == tk.mFirstRecord

\* The values escape is tried with.
EscapeVals == LocalVals \cup Range(mStack)

\* A ScopeRetVal whose mScope is constructed before mRetVal.
ScopeRetValCtorScopeFirst ==
  /\ Running
  /\ Len(tokens) < MaxTokens
  /\ Top < MaxStack
  /\ PushLocal(UndefinedRef)
  /\ tokens' = Append(tokens, Token("ScopeRetVal", Top, Top))
  /\ lastOp' = Op("ScopeRetVal")
  /\ UNCHANGED <<heap, mObjects, mRoot, mScope, mFrame, FORCE_GC, halt>>

\* ScopeRetVal scope;  mRetVal() pushes undefined, then mScope() records the top
ScopeRetValCtor ==
  /\ Running
  /\ Len(tokens) < MaxTokens
  /\ Top < MaxStack
  /\ PushLocal(UndefinedRef)
  /\ tokens' = Append(tokens, Token("ScopeRetVal", Top + 1, Top))
  /\ lastOp' = Op("ScopeRetVal")
  /\ UNCHANGED <<heap, mObjects, mRoot, mScope, mFrame, FORCE_GC, halt>>

\* ~ScopeRetVal(): ~Scope() of mScope; mRetVal stays
ScopeRetValDtor ==
  /\ Running
  /\ tokens # <<>>
  /\ Innermost.t = "ScopeRetVal"
  /\ PopLocal(Innermost.mFirstRecord)
  /\ tokens' = PassRet(Innermost.ret)
  /\ lastOp' = Op3("~ScopeRetVal", Top - Innermost.mFirstRecord, Innermost.entry, Innermost.ret)
  /\ UNCHANGED <<heap, mObjects, mRoot, mScope, mFrame, FORCE_GC, halt>>

\* An escape that hands out a freshly pushed slot holding v.
EscapePushed ==
  \E v \in EscapeVals :
    /\ Running
    /\ tokens # <<>>
    /\ Innermost.t = "ScopeRetVal"
    /\ Top < MaxStack
    /\ mStack' = Append([mStack EXCEPT ![RetSlot(Innermost)] = v], v)
    /\ tokens' = [tokens EXCEPT ![Len(tokens)].ret = <<Top + 1, v>>]
    /\ lastOp' = Op3("escape", Top, RetSlot(Innermost), <<Top + 1, v>>)
    /\ UNCHANGED <<heap, mObjects, mRoot, mScope, mFrame, FORCE_GC, halt>>

\* scope.escape(v) of a ScopeRetVal: *mRetVal = *aVal; return Local(&*mRetVal),
\* a Local on the record of mRetVal itself
Escape ==
  \E v \in EscapeVals :
    /\ Running
    /\ tokens # <<>>
    /\ Innermost.t = "ScopeRetVal"
    /\ mStack' = [mStack EXCEPT ![RetSlot(Innermost)] = v]
    /\ tokens' = [tokens EXCEPT ![Len(tokens)].ret = <<RetSlot(Innermost), v>>]
    /\ lastOp' = Op3("escape", Top, RetSlot(Innermost), <<RetSlot(Innermost), v>>)
    /\ UNCHANGED <<heap, mObjects, mRoot, mScope, mFrame, FORCE_GC, halt>>

\* ScopeRet<T> scope;  the Retained<T> mRetVal() pushes undefined, then
\* mScope() records the top
ScopeRetCtor ==
  /\ Running
  /\ Len(tokens) < MaxTokens
  /\ Top < MaxStack
  /\ PushLocal(UndefinedRef)
  /\ tokens' = Append(tokens, Token("ScopeRet", Top + 1, Top))
  /\ lastOp' = Op("ScopeRet")
  /\ UNCHANGED <<heap, mObjects, mRoot, mScope, mFrame, FORCE_GC, halt>>

\* ~ScopeRet<T>(): ~Scope() of mScope; mRetVal stays
ScopeRetDtor ==
  /\ Running
  /\ tokens # <<>>
  /\ Innermost.t = "ScopeRet"
  /\ PopLocal(Innermost.mFirstRecord)
  /\ tokens' = PassRet(Innermost.ret)
  /\ lastOp' = Op3("~ScopeRet", Top - Innermost.mFirstRecord, Innermost.entry, Innermost.ret)
  /\ UNCHANGED <<heap, mObjects, mRoot, mScope, mFrame, FORCE_GC, halt>>

\* scope.escape(v) of a ScopeRet<T>: mRetVal = aVal; return
\* Retained<T>(&*mRetVal).  *mRetVal is the T the slot points to, so the
\* result is a Retained<T>(T*): a new Local, pushed on top of the stack.
ScopeRetEscape ==
  \E v \in {x \in EscapeVals \cup {UndefinedRef} : IsGCThing(x)} :
    /\ Running
    /\ tokens # <<>>
    /\ Innermost.t = "ScopeRet"
    /\ Top < MaxStack
    /\ mStack' = Append([mStack EXCEPT ![RetSlot(Innermost)] = v], v)
    /\ tokens' = [tokens EXCEPT ![Len(tokens)].ret = <<Top + 1, v>>]
    /\ lastOp' = Op3("escape<T>", Top, RetSlot(Innermost), <<Top + 1, v>>)
    /\ UNCHANGED <<heap, mObjects, mRoot, mScope, mFrame, FORCE_GC, halt>>

\* The actual argument lists calls are tried with.
ArgLists == UNION {[1..n -> LocalVals] : n \in 0..MaxArity}

\* An args[i] that reads one slot too low (the null pointer below the base).
ArgAtBelow(tk, i) == IF tk.mBegin + i = 1 THEN 0 ELSE mStack[tk.mBegin + i - 1]

\* args[i]: &mBegin[index]
ArgAt(tk, i) == mStack[tk.mBegin + i]

\* args.size(): mSize
ArgListSize(tk) == tk.mSize

\* ArgList(func, args) for a func of the given arity: the top is recorded,
\* then the arguments are pushed, padded with undefined to the arity
ArgListCtor ==
  \E arity \in 0..MaxArity, args \in ArgLists :
    /\ Running
    /\ Len(tokens) < MaxTokens
    /\ Top + Len(PadArgs(arity, args)) <= MaxStack
    /\ mStack' = mStack \o PadArgs(arity, args)
    /\ tokens' = Append(tokens, [Token("ArgList", Top, Top) EXCEPT
                                   !.mBegin = Top + 1, !.mSize = Len(args),
                                   !.args = args, !.arity = arity])
    /\ lastOp' = Op("ArgList")
    /\ UNCHANGED <<heap, mObjects, mRoot, mScope, mFrame, FORCE_GC, halt>>

\* ~ArgList(): engine().popLocal(mStackTop)
ArgListDtor ==
  /\ Running
  /\ tokens # <<>>
  /\ Innermost.t = "ArgList"
  /\ PopLocal(Innermost.mFirstRecord)
  /\ tokens' = SubSeq(tokens, 1, Len(tokens) - 1)
  /\ lastOp' = Op3("~ArgList", Top - Innermost.mFirstRecord, Innermost.entry, Innermost.ret)
  /\ UNCHANGED <<heap, mObjects, mRoot, mScope, mFrame, FORCE_GC, halt>>

\* ---- Vals

\* The byte sequences Strings are made with.
StringData == {<<>>, <<97>>, <<98>>}

\* Retained<String> s = new String(aStr)
NewStringOf(n) ==
  \E doGC \in BOOLEAN, aStr \in StringData :
    /\ MayAlloc(doGC, n)
    /\ Len(mStack) < n - RootRef
    /\ Allocate([NewThing("String") EXCEPT !.data = aStr], doGC)
    /\ PushLocal(Len(heap) + 1)
    /\ lastOp' = Op("mutator")
    /\ UNCHANGED <<mRoot, mScope, mFrame, tokens, FORCE_GC, halt>>

\* Retained<Symbol> s = new Symbol("...")
NewSymbol(n) ==
  \E doGC \in BOOLEAN :
    /\ MayAlloc(doGC, n)
    /\ Len(mStack) < n - RootRef
    /\ Allocate(NewThing("Symbol"), doGC)
    /\ PushLocal(Len(heap) + 1)
    /\ lastOp' = Op("mutator")
    /\ UNCHANGED <<mRoot, mScope, mFrame, tokens, FORCE_GC, halt>>

\* The doubles Vals are made of: 0, 1, 3.14, -1, NaN, -NaN, +Infinity,
\* -Infinity, DBL_MAX and -DBL_MAX.
Doubles ==
  {<<0, 0, 0, 0>>, <<16368, 0, 0, 0>>, <<16393, 7864, 20971, 34079>>,
   <<49136, 0, 0, 0>>, <<32760, 0, 0, 0>>, <<65528, 0, 0, 0>>,
   <<32752, 0, 0, 0>>, NegInfinity, <<32751, 65535, 65535, 65535>>,
   <<65519, 65535, 65535, 65535>>}

NaNs == {<<32760, 0, 0, 0>>, <<65528, 0, 0, 0>>}

PosInfinity == <<32752, 0, 0, 0>>

INT_MAX == 2147483647

INT_MIN == -INT_MAX - 1

\* The ints Vals are made of.
Int32s == {INT_MIN, -65537, -1, 0, 1, 42, 65536, INT_MAX}

\* The result of a Val constructor: what it was made from, and the word.
ValOp(from, input, raw) == Op3("Val", 0, 0, <<from, input, raw>>)

\* Val v(aDouble): -Infinity allocates a Box<double>, which nothing roots
ValOfDouble(n) ==
  \E doGC \in BOOLEAN, aDouble \in Doubles :
    /\ Running
    /\ IF aDouble = NegInfinity
         THEN /\ MayAlloc(doGC, n)
              /\ Allocate([NewThing("Box") EXCEPT !.data = aDouble], doGC)
         ELSE /\ ~doGC
              /\ UNCHANGED <<heap, mObjects>>
    /\ lastOp' = ValOp("double", aDouble, tagOrBoxDouble(aDouble, Len(heap) + 1))
    /\ UNCHANGED <<mRoot, mScope, mFrame, mStack, tokens, FORCE_GC, halt>>

\* Val v(aInt)
ValOfInt32 ==
  \E aInt \in Int32s :
    /\ Running
    /\ lastOp' = ValOp("int32", aInt, tagOrBoxInt32(aInt))
    /\ UNCHANGED <<heap, mObjects, mRoot, mScope, mFrame, mStack, tokens, FORCE_GC, halt>>

\* Val v(aBool): a pointer to trueRef() or falseRef()
ValOfBool ==
  \E aBool \in BOOLEAN :
    /\ Running
    /\ lastOp' = ValOp("bool", aBool, tagPointer(IF aBool THEN TrueRef ELSE FalseRef))
    /\ UNCHANGED <<heap, mObjects, mRoot, mScope, mFrame, mStack, tokens, FORCE_GC, halt>>

\* Val v(Undefined()): a pointer to undefinedRef()
ValOfUndefined ==
  /\ Running
  /\ lastOp' = ValOp("undefined", UndefinedRef, tagPointer(UndefinedRef))
  /\ UNCHANGED <<heap, mObjects, mRoot, mScope, mFrame, mStack, tokens, FORCE_GC, halt>>

\* Val v(Null()): a pointer to nullRef()
ValOfNull ==
  /\ Running
  /\ lastOp' = ValOp("null", NullRef, tagPointer(NullRef))
  /\ UNCHANGED <<heap, mObjects, mRoot, mScope, mFrame, mStack, tokens, FORCE_GC, halt>>

\* Val v(aRef) of an object generated code holds
ValOfPointer ==
  \E aRef \in Pointers :
    /\ Running
    /\ lastOp' = ValOp("pointer", aRef, tagPointer(aRef))
    /\ UNCHANGED <<heap, mObjects, mRoot, mScope, mFrame, mStack, tokens, FORCE_GC, halt>>

\* The Vals equality is tried on: the live objects generated code holds, the
\* undefined and null singletons, the NaNs and an int.
CompareVals ==
  {tagPointer(o) : o \in (Pointers \cup {UndefinedRef, NullRef}) \cap mObjects}
    \cup {tagOrBoxDouble(d, 0) : d \in NaNs} \cup {tagOrBoxInt32(42)}

\* lhs == rhs
ValCompare ==
  \E lhs \in CompareVals, rhs \in CompareVals :
    /\ Running
    /\ lastOp' = Op3("==", 0, 0, <<lhs, rhs, ValEquals(lhs, rhs)>>)
    /\ UNCHANGED <<heap, mObjects, mRoot, mScope, mFrame, mStack, tokens, FORCE_GC, halt>>

\* ---- Retained<T>

\* The classes T a Retained<T> is declared with.
RetainedClasses == {"Object", "String", "Symbol", "Function", "Cell"}

\* Retained<T> r;  mLocal() is a Local holding undefined
RetainedDefault ==
  /\ Running
  /\ Top < MaxStack
  /\ PushLocal(UndefinedRef)
  /\ lastOp' = Op("pushLocal")
  /\ UNCHANGED <<heap, mObjects, mRoot, mScope, mFrame, tokens, FORCE_GC, halt>>

\* r.asPointer(), *r, r-> of a Retained<T> on slot i that holds a pointer: the
\* pointer is reinterpreted as a T*, whatever it points to
RetainedAsPointer ==
  \E i \in 1..Top, T \in RetainedClasses :
    /\ Running
    /\ IsGCThing(mStack[i])
    /\ lastOp' = Op3("asPointer", mStack[i], i, <<T>>)
    /\ UNCHANGED <<heap, mObjects, mRoot, mScope, mFrame, mStack, tokens, FORCE_GC, halt>>

\* asPointer of a Retained<T> whose slot holds no pointer: std::abort
RetainedAsPointerAbort ==
  /\ Running
  /\ \E i \in 1..Top : ~IsGCThing(mStack[i])
  /\ Halted("abort", Op("asPointer"))

\* ---- specifications

\* the heap and the collector, over at most n heap objects
NextHeap(n) ==
  \/ NewObject(n)
  \/ NewString(n)
  \/ SetProp(FALSE)
  \/ SetPropAbort
  \/ Gc
  \/ GcCrash
  \/ UseAfterFree

NextScope(n) ==
  \/ PushScope(n)
  \/ PopScope
  \/ PopScopeAbort
  \/ ScopeSetLocal

NextCall(n) ==
  \/ NewFunction(n)
  \/ Call(n)
  \/ CallAbort
  \/ Return
  \/ ReturnCrash
  \/ PopFrameAbort

NextClosure(n) ==
  \/ NewCell(n)
  \/ CaptureWrite
  \/ CaptureRead
  \/ CaptureCrash

NextStack ==
  \/ NewLocal
  \/ ScopeCtor
  \/ ScopeDtor
  \/ ScopeRetValCtor
  \/ ScopeRetValDtor
  \/ Escape
  \/ ScopeRetCtor
  \/ ScopeRetDtor
  \/ ScopeRetEscape
  \/ ArgListCtor
  \/ ArgListDtor

Next ==
  \/ NextHeap(MaxObjects)
  \/ NextScope(MaxObjects)
  \/ NextCall(MaxObjects)
  \/ NextClosure(MaxObjects)
  \/ NextStack

Spec == Init /\ [][Next]_vars

\* Objects, Strings, heap Scopes and the collector, over a heap one object
\* smaller than MaxObjects.
SpecHeap == Init /\ [][NextHeap(MaxObjects - 1) \/ NextScope(MaxObjects - 1)]_vars

\* Cells, Functions and their captures under the collector.
SpecClosure ==
  Init /\ [][\/ NewString(MaxObjects)
             \/ NewFunction(MaxObjects)
             \/ NextClosure(MaxObjects)
             \/ SetProp(FALSE)
             \/ Gc
             \/ UseAfterFree]_vars

\* Property writes and reads, with their operands and results kept in the
\* history.
SpecProps ==
  Init /\ [][\/ NewObject(MaxObjects - 1)
             \/ NewString(MaxObjects - 1)
             \/ SetProp(TRUE)
             \/ GetPropRead]_vars

\* Property writes and reads with every kind of key, on Objects with
\* prototypes.
SpecPropKeys ==
  Init /\ [][\/ NewObject(MaxObjects - 1)
             \/ NewString(MaxObjects - 1)
             \/ SetProp(FALSE)
             \/ SetPropAbort
             \/ GetPropRead
             \/ GetPropAbort]_vars

\* Property writes alone, on Objects with prototypes.
SpecSetProp ==
  Init /\ [][\/ NewObject(MaxObjects - 1)
             \/ NewString(MaxObjects - 1)
             \/ SetProp(FALSE)]_vars

\* Functions, calls and their Frames under the collector.
SpecFrame == Init /\ [][NextCall(MaxObjects + 1) \/ Gc \/ GcCrash]_vars

\* Retained<T> handles on slots that hold Strings, the root object, numbers
\* and undefined.
SpecRetained ==
  Init /\ [][\/ NewLocal
             \/ NewString(RootRef + MaxStack)
             \/ RetainedDefault
             \/ RetainedAsPointer
             \/ RetainedAsPointerAbort]_vars

\* Vals made by every constructor, of numbers, singletons and objects.
SpecVal ==
  Init /\ [][\/ NewStringOf(RootRef + MaxStack)
             \/ NewSymbol(RootRef + MaxStack)
             \/ NewFunction(RootRef + MaxStack)
             \/ ValOfDouble(RootRef + MaxStack)
             \/ ValOfInt32
             \/ ValOfBool
             \/ ValOfUndefined
             \/ ValOfNull
             \/ ValOfPointer]_vars

\* Equality of Vals, over Strings of equal and of different text.
SpecValEquals ==
  Init /\ [][NewStringOf(RootRef + MaxStack) \/ NewSymbol(RootRef + MaxStack) \/ ValCompare]_vars

\* The operations that allocate nothing, between allocations and gc().
SpecEffects ==
  Init /\ [][\/ NewString(RootRef + MaxStack)
             \/ NewCell(RootRef + MaxStack)
             \/ NewFunction(RootRef + MaxStack)
             \/ Gc
             \/ SetProp(FALSE)
             \/ GetPropRead
             \/ LocalAssign
             \/ ScopeRetValCtor
             \/ Escape
             \/ ScopeRetValDtor
             \/ CaptureWrite
             \/ Call(RootRef + MaxStack)
             \/ Return]_vars

\* The engine from the start of its constructor.
SpecCtor ==
  InitCtor /\ [][\/ EngineCtorAlloc
                 \/ EngineCtorGcCrash
                 \/ NewObject(MaxObjects - 1)
                 \/ NewString(MaxObjects - 1)
                 \/ SetProp(FALSE)
                 \/ Gc]_vars

\* Allocations between property writes, with no collection but the ones the
\* allocations run.
SpecAlloc ==
  Init /\ [][\/ NewObject(RootRef + MaxStack)
             \/ NewString(RootRef + MaxStack)
             \/ NewCell(RootRef + MaxStack)
             \/ SetProp(FALSE)]_vars

\* Heaps with cycles under the collector: Objects that are their own property
\* values, and Functions stored in the heap Scope they remember.
SpecCycle ==
  Init /\ [][\/ NewString(RootRef + MaxStack)
             \/ NewFunction(RootRef + MaxStack)
             \/ SetProp(FALSE)
             \/ PushScope(RootRef + MaxStack)
             \/ ScopeSetLocal
             \/ Gc
             \/ GcCrash]_vars

\* Properties of the root object under Strings of equal and of different
\* text.
SpecPropText ==
  Init /\ [][\/ NewStringOf(RootRef + MaxStack)
             \/ SetPropEmplace
             \/ GetPropFind]_vars

\* The shadow stack and its scope tokens.
SpecStack == Init /\ [][NextStack]_vars

\* Bodies that allocate a String and escape it, under the collector.
SpecRetVal == Init /\ [][NextStack \/ NewString(RootRef + MaxStack) \/ Gc]_vars

\* ---- reachability, as the collector is meant to see it

\* Every pointer object o holds.
AllRefs(o) ==
  ({heap[o].mPrototype, heap[o].mScope, heap[o].mParent, heap[o].mFunc} \ {0})
    \cup PropKeys(o) \cup Range(heap[o].mCaptures)
    \cup {v \in PropVals(o) \cup Range(heap[o].mSlots) \cup {heap[o].mThis, heap[o].mVal} :
            IsGCThing(v)}

RECURSIVE Reach(_)
Reach(S) ==
  LET S2 == S \cup UNION {AllRefs(o) : o \in S}
  IN IF S2 = S THEN S ELSE Reach(S2)

\* The pointers o holds as property keys and values.
PropRefs(o) == PropKeys(o) \cup {v \in PropVals(o) : IsGCThing(v)}

RECURSIVE PropReach(_)
PropReach(S) ==
  LET S2 == S \cup UNION {PropRefs(o) : o \in S}
  IN IF S2 = S THEN S ELSE PropReach(S2)

\* The roots: the singletons, the root object, the current Frame, the
\* shadow-stack slots below the top, and the current heap Scope.
Roots ==
  Sigils \cup {mRoot} \cup ({mFrame, mScope} \ {0}) \cup {v \in Range(mStack) : IsGCThing(v)}

AfterGc == Running /\ lastOp.op = "gc"

\* ---- the claims

\* C1: when gc() returns, every object reachable from the root object through
\* property keys and values is in the live set, at the first gc() and at
\* every later one.
RootReachableSurvivesGc == AfterGc => PropReach({mRoot}) \subseteq mObjects

\* C2: when gc() returns, every object a shadow-stack slot below the top
\* refers to is in the live set.
StackSlotsSurviveGc ==
  AfterGc => \A i \in 1..Top : IsGCThing(mStack[i]) => mStack[i] \in mObjects

\* C3: when gc() returns, every object of the live set is reachable from the
\* roots.
LiveSetIsReachableAfterGc == AfterGc => mObjects \subseteq Reach(Roots)

\* C4: when gc() returns, the mark bit of every object of the live set is
\* false.
MarksClearAfterGc == AfterGc => \A o \in mObjects : ~heap[o].mMarked

\* C5: in every state, every pointer a live object holds refers to a live
\* object.
NoLiveObjectRefersToDead == Running => \A o \in mObjects : AllRefs(o) \subseteq mObjects

\* C6: in every state after construction the five singletons are in the live
\* set.
SigilsAlwaysLive == Running => Sigils \subseteq mObjects

\* C7: gc() is idempotent on the live set: in a state gc() has just left, the
\* live set another gc() would leave is the live set as it is.
GcIdempotent == AfterGc => GcObjects = mObjects

\* C7 witness: gc() has run twice in a row, after it freed some object and
\* kept an object allocated since construction.
GcTwiceInARow ==
  /\ AfterGc
  /\ lastOp.n = 2
  /\ Cardinality(mObjects) < Len(heap)
  /\ \E o \in mObjects : o > RootRef

\* C8: a read through a capture returns the value last written to the
\* captured variable through a capture.
CaptureReadSeesLastWrite ==
  (Running /\ lastOp.op = "captureRead" /\ heap[lastOp.c].written)
    => lastOp.n = heap[lastOp.c].mVal

\* C9: when gc() returns, for every live Function reachable from the roots
\* each captured Cell, the object its binding refers to and the keys and
\* values of the Function's properties are in the live set.
CapturedCellsSurviveGc ==
  AfterGc =>
    \A f \in mObjects \cap Reach(Roots) :
      IsFunction(f) =>
        /\ PropRefs(f) \subseteq mObjects
        /\ \A c \in Range(heap[f].mCaptures) :
             c \in mObjects /\ (IsGCThing(heap[c].mVal) => heap[c].mVal \in mObjects)

\* C10: right after a Scope or an ArgList is destroyed the shadow-stack top is
\* the top at its construction (for an ArgList, before its arguments were
\* pushed), whatever was pushed and nested in between.
ScopeRestoresTop ==
  (Running /\ lastOp.op \in {"~Scope", "~ArgList"}) => Top = lastOp.c

\* C10 witness: a Scope has been destroyed and took two slots with it.
ScopeClosedAfterPushes ==
  Running /\ lastOp.op = "~Scope" /\ lastOp.n = 2 /\ tokens # <<>>

\* A ReturnScope has just been destroyed.
AfterReturnScope == Running /\ lastOp.op \in {"~ScopeRetVal", "~ScopeRet"}

\* C11: right after a ScopeRetVal or a ScopeRet<T> is destroyed the
\* shadow-stack top is the top before its construction plus one slot, whatever
\* was pushed while it was open and whether or not escape was called.
ReturnScopeLeavesOneSlot == AfterReturnScope => Top = lastOp.c + 1

\* C11 witness: a ScopeRet<T> whose escape was called, and that took a slot
\* with it, has been destroyed inside another token.
ReturnScopeClosedAfterEscape ==
  /\ Running
  /\ lastOp.op = "~ScopeRet"
  /\ lastOp.h # <<>>
  /\ lastOp.n >= 1
  /\ tokens # <<>>

\* C12: ScopeRetVal::escape(v) pushes no slot, stores v in the slot reserved
\* in the parent region and returns a handle to that slot; after the
\* ScopeRetVal is destroyed the handle's slot is below the top and holds v.
EscapedHandleSurvives ==
  /\ (Running /\ lastOp.op = "escape") =>
       /\ Top = lastOp.n
       /\ lastOp.h[1] = lastOp.c
       /\ mStack[lastOp.c] = lastOp.h[2]
  /\ (Running /\ lastOp.op = "~ScopeRetVal" /\ lastOp.h # <<>>) =>
       /\ lastOp.h[1] <= Top
       /\ mStack[lastOp.h[1]] = lastOp.h[2]

\* C12 witness: a ScopeRetVal that escaped the root object, with a Local pushed
\* inside it, has been destroyed.
ScopeRetValClosedAfterEscape ==
  /\ Running
  /\ lastOp.op = "~ScopeRetVal"
  /\ lastOp.h # <<>>
  /\ lastOp.h[2] = mRoot
  /\ lastOp.n >= 1

\* C13: the handle ScopeRet<T>::escape returns refers to the slot reserved in
\* the parent region; after the ScopeRet<T> is destroyed its slot is below the
\* top and holds the escaped value, as for a ScopeRetVal.
TypedEscapedHandleSurvives ==
  /\ (Running /\ lastOp.op = "escape<T>") =>
       /\ Top = lastOp.n
       /\ lastOp.h[1] = lastOp.c
  /\ (Running /\ lastOp.op = "~ScopeRet" /\ lastOp.h # <<>>) =>
       /\ lastOp.h[1] <= Top
       /\ mStack[lastOp.h[1]] = lastOp.h[2]

\* C14: after a body that opened a ScopeRetVal and escaped a String has
\* returned and the ArgList of its call has been destroyed, the Local the
\* caller received refers to a slot below the shadow-stack top that holds the
\* escaped value, and an escaped object is in the live set.
ReturnedLocalSurvives ==
  (Running /\ lastOp.op = "~ArgList" /\ lastOp.h # <<>> /\ IsString(lastOp.h[2])) =>
    /\ lastOp.h[1] <= Top
    /\ mStack[lastOp.h[1]] = lastOp.h[2]
    /\ IsGCThing(lastOp.h[2]) => lastOp.h[2] \in mObjects

CallRestoresFrame ==
  /\ (Running /\ tokens # <<>> /\ Innermost.t = "call") =>
       /\ mFrame = Innermost.mine
       /\ heap[mFrame].mParent = Innermost.frame
  /\ (Running /\ lastOp.op = "return") => mFrame = lastOp.c

\* The value stored under k on the first object of o's prototype chain that
\* has k, undefined when none has.
RECURSIVE ChainValue(_, _)
ChainValue(o, k) ==
  IF k \in PropKeys(o) THEN (CHOOSE p \in heap[o].mProps : p[1] = k)[2]
  ELSE IF heap[o].mPrototype # 0 THEN ChainValue(heap[o].mPrototype, k)
  ELSE UndefinedRef

\* C17: right after setProp(o, k, v), getProp(o, k) returns v.
GetPropAfterSetProp ==
  (Running /\ lastOp.op = "setProp") => GetProp(lastOp.n, lastOp.c) = lastOp.h[1]

\* C18: getProp(o, k) returns the value stored under k on the first object of
\* o's prototype chain that has k, and undefined when no object of the chain
\* has k.
GetPropWalksChain ==
  (Running /\ lastOp.op = "getProp") => lastOp.h[1] = ChainValue(lastOp.n, lastOp.c)

\* C19: a step that is setProp(o, k, v) on a live object o with a String k
\* (this specification allocates no Symbol) changes nothing
\* but the property map of o: every other object and every other field of o,
\* its prototype pointer included, are as before, also when a prototype of o
\* has k.
SetPropOnlyTouchesReceiver ==
  [][\A o \in Pointers \cap mObjects, k \in {x \in Pointers : IsString(x)},
        v \in Operands \cup Int32Vals :
       SetPropOn(o, k, v, FALSE) =>
         /\ DOMAIN heap' = DOMAIN heap
         /\ \A x \in DOMAIN heap : x # o => heap'[x] = heap[x]
         /\ heap'[o] = [heap[o] EXCEPT !.mProps = heap'[o].mProps]]_vars

\* C19 witness: a live object other than the root has a property whose key its
\* prototype has as well, under another value.
SetPropShadowsPrototype ==
  /\ Running
  /\ \E o \in mObjects :
       /\ heap[o].mPrototype # 0
       /\ \E p \in heap[o].mProps, q \in heap[heap[o].mPrototype].mProps :
            p[1] = q[1] /\ p[2] # q[2]

\* C20: no property is ever stored or looked up under a key that is neither a
\* String nor a Symbol: setProp and getProp with such a key end in std::abort.
PropKeysAreNames ==
  Running =>
    /\ \A o \in DOMAIN heap : \A k \in PropKeys(o) : IsString(k) \/ IsSymbol(k)
    /\ lastOp.op = "getProp" => IsString(lastOp.c) \/ IsSymbol(lastOp.c)

\* C20 witness: the process has aborted on a property key, with generated code
\* holding values that are no String and no Symbol.
AbortedOnPropKey == halt = "abort" /\ lastOp.op = "abort"

\* C21: popFrame without a current frame aborts; with a (live) current frame
\* it makes that frame's parent the current frame; and as long as every
\* popFrame is the one call() issues after its own pushFrame, the abort of
\* popFrame is never reached.
PopFrameNeverAbortsInCall ==
  /\ (Running /\ lastOp.op = "return" /\ lastOp.n \in mObjects) =>
       mFrame = heap[lastOp.n].mParent
  /\ ~(halt = "abort" /\ lastOp.op = "popFrame")

\* C22: asPointer (and with it operator* and operator->) of a Retained<T>
\* returns only when the slot holds a pointer to an object of class T; with
\* a number in the slot, and with the undefined of a default-constructed
\* Retained<T>, the process aborts.
RetainedDerefChecksClass ==
  (Running /\ lastOp.op = "asPointer") =>
    (IsGCThing(lastOp.n) /\ heap[lastOp.n].kind = lastOp.h[1])

\* An equality has just been evaluated: lastOp.h is <<lhs, rhs, result>>.
AfterCompare == Running /\ lastOp.op = "=="

\* C23: Val equality is equality of the raw words, or of the texts when both
\* are Strings: for two live String objects, the same or not, the result is
\* true exactly when their byte sequences are identical, and for two
\* different objects that are not both Strings it is false.
ValEqualityIsRawOrText ==
  AfterCompare =>
    LET lhs == lastOp.h[1]
        rhs == lastOp.h[2]
        a == asPointer(lastOp.h[1])
        b == asPointer(lastOp.h[2])
        bothStrings ==
          /\ isGCThing(lhs) /\ isGCThing(rhs)
          /\ heap[a].kind = "String" /\ heap[b].kind = "String"
    IN /\ lhs = rhs => lastOp.h[3]
       /\ bothStrings => (lastOp.h[3] <=> heap[a].data = heap[b].data)
       /\ (lhs # rhs /\ ~bothStrings) => ~lastOp.h[3]

\* C23 witness: two different live Strings with the same text have been
\* compared, and found equal.
EqualStringsCompared ==
  /\ AfterCompare
  /\ lastOp.h[1] # lastOp.h[2]
  /\ isString(lastOp.h[1]) /\ isString(lastOp.h[2])
  /\ heap[asPointer(lastOp.h[1])].data = heap[asPointer(lastOp.h[2])].data
  /\ lastOp.h[3]

\* C24: undefined == undefined and null == null are true, and a Val made of
\* NaN is not equal to a Val made of NaN, itself included.
NaNNeverEqual ==
  AfterCompare =>
    /\ (isUndefined(lastOp.h[1]) /\ isUndefined(lastOp.h[2])) => lastOp.h[3]
    /\ (isNull(lastOp.h[1]) /\ isNull(lastOp.h[2])) => lastOp.h[3]
    /\ (\E d \in NaNs : lastOp.h[1] = tagOrBoxDouble(d, 0))
         /\ (\E d \in NaNs : lastOp.h[2] = tagOrBoxDouble(d, 0))
         => ~lastOp.h[3]

\* A Val constructor has just run: lastOp.h is <<made from, input, word>>.  A
\* word that is a pointer points to a live object.
AfterVal ==
  /\ Running
  /\ lastOp.op = "Val"
  /\ isGCThing(lastOp.h[3]) => asPointer(lastOp.h[3]) \in mObjects

\* C25: for every Val the constructors make (of a double, an int32, a bool,
\* undefined, null, or a pointer to a String, Symbol, Object or Function)
\* exactly one of isDouble, isInt32, isBool, isUndefined, isNull, isString,
\* isSymbol, isObject and isFunction is true.
ExactlyOnePredicateHolds ==
  AfterVal =>
    LET v == lastOp.h[3]
        holds == <<isDouble(v), isInt32(v), isBool(v), isUndefined(v), isNull(v),
                   isString(v), isSymbol(v), isObject(v), isFunction(v)>>
    IN Cardinality({i \in DOMAIN holds : holds[i]}) = 1

\* C26: a Val made of NaN or of +Infinity is an unboxed double whose asDouble
\* is the double it was made of; a Val made of -Infinity is not the shifted
\* word, which would be raw 0, but a pointer to a Box<double> whose toDouble
\* is -Infinity.
SpecialDoublesRoundTrip ==
  (AfterVal /\ lastOp.h[1] = "double") =>
    LET aDouble == lastOp.h[2]
        v == lastOp.h[3]
    IN /\ aDouble \in NaNs \cup {PosInfinity} =>
            isDouble(v) /\ asDouble(v) = aDouble
       /\ aDouble = NegInfinity =>
            /\ v # <<0, 0, 0, 0>>
            /\ isGCThing(v)
            /\ heap[asPointer(v)].kind = "Box"
            /\ BoxToDouble(asPointer(v)) = aDouble

\* C26 witness: a Val has been made of -Infinity, and its box is live.
NegInfinityBoxed == AfterVal /\ lastOp.h[1] = "double" /\ lastOp.h[2] = NegInfinity

\* C27: for every int32 n, INT_MIN, INT_MAX and the negative ones included,
\* Val(n) is an int32, is no double and no pointer, and its asInt32 is n.
Int32RoundTrip ==
  (AfterVal /\ lastOp.h[1] = "int32") =>
    /\ isInt32(lastOp.h[3])
    /\ ~isDouble(lastOp.h[3])
    /\ ~isGCThing(lastOp.h[3])
    /\ asInt32(lastOp.h[3]) = lastOp.h[2]

\* C27 witness: a Val has been made of INT_MIN.
IntMinMade == AfterVal /\ lastOp.h[1] = "int32" /\ lastOp.h[2] = INT_MIN

\* C28: a step that is neither an allocation (the heap grows) nor gc(), and
\* that does not end the process, takes no object out of the live set and
\* changes no mark bit: so it is with getProp, setProp, pushLocal, popLocal,
\* the assignment of a Local, escape, the write of a Cell and popFrame.
OnlyCollectionsFree ==
  [][(Running' /\ Len(heap') = Len(heap) /\ lastOp'.op # "gc") =>
       /\ mObjects' = mObjects
       /\ \A o \in DOMAIN heap : heap'[o].mMarked = heap[o].mMarked]_vars

\* C28 witness: popFrame has run after a collection that freed an object and
\* left a mark on one it kept.
ReturnedAfterCollection ==
  /\ Running
  /\ lastOp.op = "return"
  /\ Cardinality(mObjects) < Len(heap)
  /\ \E o \in mObjects : heap[o].mMarked

\* C29: no mark and no sweep runs before the five singletons and the root
\* object exist: an allocation or a gc() while mReadyForGC is false, in a
\* FORCE_GC build too, frees nothing and does not dereference the unset root.
NoGcBeforeReady ==
  lastOp.op = "ctor" => (halt # "ub" /\ lastOp.n = 0 /\ mObjects = DOMAIN heap)

\* Frame f and the Frames of its parent chain.
RECURSIVE FrameChain(_)
FrameChain(f) == IF f = 0 THEN {} ELSE {f} \cup FrameChain(heap[f].mParent)

\* C30: when a gc() inside a body returns, the current Frame and every Frame
\* of its parent chain are in the live set, and so are the callee Function,
\* the this Value and every argument Value of each of them, also when the
\* Frame is all that refers to them.
FrameRefsSurviveGc ==
  (AfterGc /\ tokens # <<>> /\ Innermost.t = "call") =>
    \A f \in FrameChain(mFrame) :
      /\ f \in mObjects
      /\ heap[f].mFunc \in mObjects
      /\ \A v \in {heap[f].mThis} \cup Range(heap[f].mSlots) :
           IsGCThing(v) => v \in mObjects

\* C31: an allocation that returns has collected before it registered the
\* new object, always in a FORCE_GC build and possibly in any other: the live
\* set is the one the collection left (or the one before, when none ran) plus
\* the new object, whose mark bit is false, and the older objects are as the
\* collection left them.
AllocationCollectsFirst ==
  [][(Running' /\ Len(heap') = Len(heap) + 1) =>
       /\ Len(heap') \in mObjects'
       /\ ~heap'[Len(heap')].mMarked
       /\ \/ /\ mObjects' = GcObjects \cup {Len(heap')}
             /\ SubSeq(heap', 1, Len(heap)) = GcHeap
          \/ /\ ~FORCE_GC
             /\ mObjects' = mObjects \cup {Len(heap')}
             /\ SubSeq(heap', 1, Len(heap)) = heap]_vars

\* C31 witness: in a FORCE_GC build the newest object is live next to an
\* older one that the collection of an allocation freed, and to a survivor
\* with the mark of a collection.
AllocatedAfterCollection ==
  /\ Running
  /\ FORCE_GC
  /\ Len(heap) \in mObjects
  /\ \E o \in DOMAIN heap : o > RootRef /\ o \notin mObjects
  /\ \E o \in mObjects : heap[o].mMarked

\* C32: gc() terminates on every heap the program can build, the cyclic ones
\* included (an Object that is its own property value, a Function stored in
\* a variable of the Scope it remembers): in no state would the mark phase enter the markRefsForGC of
\* an object it is already running.
GcTerminates == Running => ~GcDiverges

\* C33: hash and equality of Vals agree: two live Vals that compare equal
\* have equal hashes, and a search of an object's properties for a live
\* String stops at an entry whenever the object has a live key that is equal
\* to it, be it another String object of the same text.
HashAgreesWithEquality ==
  Running =>
    /\ \A a \in Pointers \cap mObjects, b \in Pointers \cap mObjects :
         ValEquals(Address(a), Address(b)) => Hash(Address(a)) = Hash(Address(b))
    /\ (lastOp.op = "find" /\ lastOp.c \in mObjects) =>
         \A q \in PropKeys(lastOp.n) \cap mObjects :
           ValEquals(Address(q), Address(lastOp.c)) => lastOp.h[1] # 0

\* C34: for every double other than -Infinity (the finite ones down to
\* -DBL_MAX, +Infinity and the NaNs of either sign) the word Val(d) holds is
\* the bits plus tagShift modulo 2^64; its tag is neither the pointer tag nor
\* the int32 tag, so isDouble is true, and asDouble gives the bits back.
EveryDoubleIsUnboxed ==
  (AfterVal /\ lastOp.h[1] = "double" /\ lastOp.h[2] # NegInfinity) =>
    /\ tag(lastOp.h[3]) # tagBitsPointer
    /\ tag(lastOp.h[3]) # tagBitsInt32
    /\ isDouble(lastOp.h[3])
    /\ asDouble(lastOp.h[3]) = lastOp.h[2]

====
